---- MODULE Spec2Model ----
(***************************************************************************)
(* The reconciliation pipeline of the Doris cluster operator:              *)
(* DorisClusterReconciler.Reconcile and its five stage functions           *)
(* (internal/reconciler/doriscluster_reconciler.go) together with the FE   *)
(* resource builders (internal/transformer/fe_resources.go).               *)
(*                                                                         *)
(* A pass of Reconcile is modelled call by call: every object-store call   *)
(* (Exist, Create, CreateOrUpdate, DeleteWhenExist) and the autoscaler     *)
(* lookup is one step, and each may return an error.  Between passes the   *)
(* cluster spec, the autoscaler binding and the live replica count of the  *)
(* CN workload set may be changed from outside.                            *)
(*                                                                         *)
(* A nil pointer / absent object is the empty set, a present value v is    *)
(* the singleton {v}.                                                      *)
(***************************************************************************)
EXTENDS Integers, Sequences, FiniteSets, TLC

\* ------------------------------------------------------------ bounds
MaxCfg      == 2   \* distinct contents of a role's configuration entries
MaxReplicas == 2   \* replica counts 1..MaxReplicas
MaxPasses   == 3   \* passes of Reconcile in one behaviour
MaxEvents   == 1   \* external changes (spec, binding, autoscaler scaling)
MaxFailures == 1   \* object-store / lookup calls that return an error
MaxErrs     == 3   \* errors given to MergeErrors in one call

Nil == {}

Roles == {"fe", "be", "cn", "broker"}

\* The sub-spec of a role: its configuration entries and its replica count.
SubSpecs == [cfg : 1..MaxCfg, replicas : 1..MaxReplicas]

SubSpecOpt == {Nil} \cup {{s} : s \in SubSpecs}

VARIABLES
    spec,       \* the declared cluster spec: role -> Nil or {sub-spec}
    cr,         \* r.CR.Spec, the spec the reconciler of the pass is bound to
    binding,    \* TRUE iff a DorisAutoScaler referring to the cluster exists
    store,      \* the object store: key -> Nil or {object}
    stage,      \* index of the running stage in stages, 0 when no pass runs
    step,       \* index of the next call of the running stage
    path,       \* the closure the running stage took: "apply" or "delete"
    statefulSet,\* recCnResources' local statefulSet between lookup and apply
    calls,      \* the calls the current (or last) pass issued, in order
    stageRes,   \* the results the stages of the current pass returned
    ret,        \* what the last pass of Reconcile returned (Nil while running)
    passes,     \* passes started
    events,     \* external changes made
    failures,   \* calls that returned an error
    stable,     \* the last pass returned complete and nothing changed since
    snap,       \* the store as that pass left it
    quiet,      \* the current (or last) pass was started while stable held
    deleted     \* the keys some pass has deleted from the store so far

vars == <<spec, cr, binding, store, stage, step, path, statefulSet, calls, stageRes,
          ret, passes, events, failures, stable, snap, quiet, deleted>>

\* ------------------------------------------------------------ identities
Kinds == {"cm", "svc", "peer", "sts"}

SecretKey == <<"opr", "secret">>

RoleKinds(r) == IF r = "broker" THEN {"cm", "peer", "sts"} ELSE Kinds

Keys == {SecretKey} \cup {<<r, k>> : r \in Roles, k \in Kinds}

RoleKeys(r) == {<<r, k>> : k \in RoleKinds(r)}

\* ------------------------------------------------------------ stage results
StageResultSucceeded == "succeeded"
StageResultFailed    == "failed"
StageActionApply     == "apply"
StageActionDelete    == "delete"

StageComplete         == "StageComplete"
StageSqlAccountSecret == "StageSqlAccountSecret"

StageRole == [fe |-> "StageFe", be |-> "StageBe", cn |-> "StageCn",
              broker |-> "StageBroker"]
StageConfigmap == [fe |-> "StageFeConfigmap", be |-> "StageBeConfigmap",
                   cn |-> "StageCnConfigmap", broker |-> "StageBrokerConfigmap"]
StageService == [fe |-> "StageFeService", be |-> "StageBeService",
                 cn |-> "StageCnService", broker |-> "StageBrokerService"]
StageStatefulSet == [fe |-> "StageFeStatefulSet", be |-> "StageBeStatefulSet",
                     cn |-> "StageCnStatefulSet",
                     broker |-> "StageBrokerStatefulSet"]

\* (mutant) the action handed over is dropped and apply is reported
clusterStageSuccApply(stg, action) ==
    [Stage |-> stg, Status |-> StageResultSucceeded,
     Action |-> StageActionApply, Err |-> Nil]

clusterStageSucc(stg, action) ==
    [Stage |-> stg, Status |-> StageResultSucceeded, Action |-> action,
     Err |-> Nil]

clusterStageFail(stg, action, err) ==
    [Stage |-> stg, Status |-> StageResultSucceeded, Action |-> action,
     Err |-> err]

CompleteResult ==
    [Stage |-> StageComplete, Status |-> StageResultSucceeded, Action |-> "",
     Err |-> Nil]

\* ------------------------------------------------------------ builders
FeConfHashAnnotationKey     == "group/fe-config"
BeConfHashAnnotationKey     == "group/be-config"
CnConfHashAnnotationKey     == "group/cn-config"
BrokerConfHashAnnotationKey == "group/broker-config"

ConfHashAnnotationKey ==
    [fe |-> FeConfHashAnnotationKey, be |-> BeConfHashAnnotationKey,
     cn |-> CnConfHashAnnotationKey, broker |-> BrokerConfHashAnnotationKey]

ConfFile == [fe |-> "fe.conf", be |-> "be.conf", cn |-> "be.conf",
             broker |-> "apache_hdfs_broker.conf"]

Sub(c, r) == CHOOSE s \in c[r] : TRUE

\* The builders.  A sub-spec's cfg stands for the content of its configuration
\* entries (entries that set no port key); the cluster declares no HadoopConf.
\* Only the FE builders are in fe_resources.go; the BE, CN and Broker
\* builders have the same shape.
\* An object descriptor.  data: the entries of a configuration bundle;
\* replicas: Spec.Replicas of a workload set (Nil = unset);
\* annotations: ObjectMeta.Annotations of the object itself;
\* tplAnnotations: Spec.Template.ObjectMeta.Annotations of a workload set.
Object(kind, data, replicas, annotations, tplAnnotations) ==
    [kind |-> kind, data |-> data, replicas |-> replicas,
     annotations |-> annotations, tplAnnotations |-> tplAnnotations]

MakeConfigMap(c, r) ==
    Object("cm", {<<ConfFile[r], <<"dump", Sub(c, r).cfg>>>>}, Nil, {}, {})

MakeService(c, r) == Object("svc", {}, Nil, {}, {})

MakePeerService(c, r) == Object("peer", {}, Nil, {}, {})

MakeStatefulSet(c, r) ==
    Object("sts", {}, {Sub(c, r).replicas}, {},
           {<<"prometheus.io/path", "/metrics">>,
            <<"prometheus.io/scrape", "true">>})

MakeOprSqlAccountSecret == Object("secret", {<<"user", "password">>}, Nil, {}, {})

\* util.MapMd5: a digest of the entries of a map.
MapMd5(data) == <<"md5", data>>

\* statefulSet.Annotations[key] = value
SetAnnotation(obj, key, value) ==
    [obj EXCEPT !.annotations =
        {a \in obj.annotations : a[1] # key} \cup {<<key, value>>}]

\* The workload set a role's apply path builds and stamps with the hash of
\* the configuration bundle it has just built.
StampedStatefulSet(c, r) ==
    SetAnnotation(MakeStatefulSet(c, r), ConfHashAnnotationKey[r],
                  MapMd5(MakeConfigMap(c, r).data))

\* ------------------------------------------------------------ object store
Live(s, key) == CHOOSE o \in s[key] : TRUE

\* CreateOrUpdate applies a field-level merge: a field the descriptor leaves
\* unset keeps its live value.
Merge(live, obj) ==
    IF obj.replicas = Nil THEN [obj EXCEPT !.replicas = live.replicas] ELSE obj

CreateOrUpdateEffect(s, key, obj) ==
    IF s[key] = Nil THEN "create"
    ELSE IF Merge(Live(s, key), obj) = Live(s, key) THEN "noop" ELSE "update"

CreateOrUpdateStore(s, key, obj) ==
    IF s[key] = Nil THEN [s EXCEPT ![key] = {obj}]
    ELSE [s EXCEPT ![key] = {Merge(Live(s, key), obj)}]

DeleteWhenExistEffect(s, key) == IF s[key] = Nil THEN "noop" ELSE "delete"

DeleteWhenExistStore(s, key) == [s EXCEPT ![key] = Nil]

\* One entry of the call log: the stage that issued the call, the operation,
\* the key, the descriptor handed over (Nil when none), what the call did, and
\* the stored object before and after it.
Call(stg, op, key, obj, eff, before, after) ==
    [stage |-> stg, op |-> op, key |-> key, obj |-> obj, eff |-> eff,
     before |-> before, after |-> after]

ErrorOf(op, key) == {[op |-> op, key |-> key]}

\* ------------------------------------------------------------ Reconcile
\* (mutant) the FE and BE stage functions listed in the other order
stagesSwapped == <<"secret", "be", "fe", "cn", "broker">>

\* The slice of stage functions Reconcile ranges over.
stages == <<"secret", "fe", "be", "cn", "broker">>

\* (mutant) the two closures handed over in the other order
ElvisSwapped(cond, a, b) == IF cond THEN b ELSE a

Elvis(cond, a, b) == IF cond THEN a ELSE b

\* The closure a stage function runs.
StagePath(c, stg) ==
    IF stg = "secret" THEN "apply"
    ELSE Elvis(c[stg] # Nil, "apply", "delete")

\* (mutant) the loop tests the status of the result instead of its error
AbortsOnStatus(result) == result.Status = StageResultFailed

\* The loop's test on a stage result: abort the pass.
Aborts(result) == result.Err # Nil

\* (mutant) recCnResources looks the autoscaler up before it applies anything
ApplyStepsLookupFirst(r) ==
    IF r = "broker" THEN <<"cm", "peer", "sts">>
    ELSE IF r = "cn" THEN <<"lookup", "cm", "svc", "peer", "sts">>
    ELSE <<"cm", "svc", "peer", "sts">>

\* (mutant) the apply path leaves the peer service out
ApplyStepsNoPeer(r) ==
    IF r = "broker" THEN <<"cm", "sts">>
    ELSE IF r = "cn" THEN <<"cm", "svc", "lookup", "sts">>
    ELSE <<"cm", "svc", "sts">>

\* (mutant) the workload set is applied before the configuration bundle
ApplyStepsWorkloadFirst(r) ==
    IF r = "broker" THEN <<"sts", "cm", "peer">>
    ELSE IF r = "cn" THEN <<"lookup", "sts", "cm", "svc", "peer">>
    ELSE <<"sts", "cm", "svc", "peer">>

\* The calls of a role's applyRes closure, in order.
ApplySteps(r) ==
    IF r = "broker" THEN <<"cm", "peer", "sts">>
    ELSE IF r = "cn" THEN <<"cm", "svc", "peer", "lookup", "sts">>
    ELSE <<"cm", "svc", "peer", "sts">>

\* (mutant) the delete path leaves the peer service out
DeleteStepsNoPeer(r) ==
    IF r = "broker" THEN <<"sts", "cm">>
    ELSE <<"sts", "svc", "cm">>

\* (mutant) the delete path removes the configuration bundle first
DeleteStepsConfigFirst(r) ==
    IF r = "broker" THEN <<"cm", "peer", "sts">>
    ELSE <<"cm", "peer", "svc", "sts">>

\* The calls of a role's deleteRes closure, in order.
DeleteSteps(r) ==
    IF r = "broker" THEN <<"sts", "peer", "cm">>
    ELSE <<"sts", "svc", "peer", "cm">>

\* (mutant) the apply path names the configuration bundle whichever step failed
ApplyFailStageConfigmap(r, k) == StageConfigmap[r]

\* The stage identifier the apply path reports when the step fails.
ApplyFailStage(r, k) ==
    IF k = "cm" THEN StageConfigmap[r]
    ELSE IF k \in {"svc", "peer"} THEN StageService[r]
    ELSE StageStatefulSet[r]

\* The stage identifier the delete path reports when the step fails.
DeleteFailStage(r, k) == StageConfigmap[r]

Running == stage # 0

CurStage == stages[stage]

\* A stage function returned `result` to the loop of Reconcile.
Returns(result) ==
    /\ stageRes' = Append(stageRes, result)
    /\ statefulSet' = Nil
    /\ IF Aborts(result)
       THEN /\ ret' = {result}
            /\ stage' = 0 /\ step' = 0 /\ path' = "none"
            /\ stable' = FALSE
            /\ snap' = snap
       ELSE IF stage = Len(stages)
       THEN /\ ret' = {CompleteResult}
            /\ stage' = 0 /\ step' = 0 /\ path' = "none"
            /\ stable' = TRUE
            /\ snap' = store'
       ELSE /\ ret' = ret
            /\ stage' = stage + 1 /\ step' = 1
            /\ path' = StagePath(cr, stages[stage + 1])
            /\ UNCHANGED <<stable, snap>>

\* (mutant) the call is issued again instead of going on to the next
ProceedsRetrying ==
    /\ step' = step
    /\ UNCHANGED <<stage, path, stageRes, ret, stable, snap>>

\* The running stage goes on to its next call.
Proceeds ==
    /\ step' = step + 1
    /\ UNCHANGED <<stage, path, stageRes, ret, stable, snap>>

\* A call either succeeds or, within the bound, returns an error.
Outcome(ok) ==
    /\ ok \/ failures < MaxFailures
    /\ failures' = IF ok THEN failures ELSE failures + 1

Init ==
    /\ spec \in [Roles -> {Nil, {[cfg |-> 1, replicas |-> MaxReplicas]}}]
    /\ cr = spec
    /\ binding \in BOOLEAN
    /\ store = [k \in Keys |-> Nil]
    /\ stage = 0 /\ step = 0 /\ path = "none"
    /\ statefulSet = Nil
    /\ calls = <<>> /\ stageRes = <<>> /\ ret = Nil
    /\ passes = 0 /\ events = 0 /\ failures = 0
    /\ stable = FALSE
    /\ snap = [k \in Keys |-> Nil]
    /\ quiet = FALSE
    /\ deleted = {}

\* A reconciler is bound to the current cluster resource and Reconcile is
\* entered: the loop calls the first stage function.
StartReconcile ==
    /\ ~Running /\ passes < MaxPasses
    /\ passes' = passes + 1
    /\ cr' = spec
    /\ stage' = 1 /\ step' = 1 /\ path' = StagePath(spec, stages[1])
    /\ calls' = <<>> /\ stageRes' = <<>> /\ ret' = Nil
    /\ statefulSet' = Nil
    /\ quiet' = stable
    /\ UNCHANGED <<spec, binding, store, events, failures, stable, snap, deleted>>

\* The call is appended to the log of the pass.
Logs(stg, op, key, obj, eff) ==
    calls' = Append(calls,
        Call(stg, op, key, obj, eff,
             IF key \in Keys THEN store[key] ELSE Nil,
             IF key \in Keys THEN store'[key] ELSE Nil))

\* (mutant) the secret is created whether or not it exists
AlwaysCreate(s) == TRUE

\* recOprAccountSecret creates the secret only when Exist reports it absent.
NeedsCreate(s) == s[SecretKey] = Nil

\* recOprAccountSecret: r.Exist(secretRef, &corev1.Secret{})
SecretExist ==
    /\ Running /\ CurStage = "secret" /\ step = 1
    /\ UNCHANGED <<spec, cr, binding, store, passes, events, quiet, deleted>>
    /\ \E ok \in BOOLEAN :
        /\ Outcome(ok)
        /\ IF ~ok
           THEN /\ Logs("secret", "Exist", SecretKey, Nil, "error")
                /\ Returns(clusterStageFail(StageSqlAccountSecret,
                        StageActionApply, ErrorOf("Exist", SecretKey)))
           ELSE IF ~NeedsCreate(store)
           THEN /\ Logs("secret", "Exist", SecretKey, Nil, "checked")
                /\ Returns(clusterStageSucc(StageSqlAccountSecret,
                        StageActionApply))
           ELSE /\ Logs("secret", "Exist", SecretKey, Nil, "checked")
                /\ Proceeds
                /\ statefulSet' = Nil

\* recOprAccountSecret: r.Create(r.Ctx, newSecret)
SecretCreate ==
    /\ Running /\ CurStage = "secret" /\ step = 2
    /\ UNCHANGED <<spec, cr, binding, passes, events, quiet, deleted>>
    /\ \E ok \in BOOLEAN :
        /\ Outcome(ok)
        /\ store' = IF ok THEN [store EXCEPT ![SecretKey] = {MakeOprSqlAccountSecret}]
                    ELSE store
        /\ Logs("secret", "Create", SecretKey, {MakeOprSqlAccountSecret},
                IF ok THEN "create" ELSE "error")
        /\ IF ok
           THEN Returns(clusterStageSucc(StageSqlAccountSecret, StageActionApply))
           ELSE Returns(clusterStageFail(StageSqlAccountSecret,
                        StageActionApply, ErrorOf("Create", SecretKey)))

\* (mutant) the replica field is kept although an autoscaler was found
CnStatefulSetKeepsReplicas(c, found) == StampedStatefulSet(c, "cn")

\* (mutant) the replica field is unset whether or not an autoscaler was found
CnStatefulSetAlwaysUnset(c, found) ==
    [StampedStatefulSet(c, "cn") EXCEPT !.replicas = Nil]

\* The workload set recCnResources hands to CreateOrUpdate: its replica field
\* is unset when the lookup found an autoscaler.
CnStatefulSet(c, found) ==
    IF found THEN [StampedStatefulSet(c, "cn") EXCEPT !.replicas = Nil]
    ELSE StampedStatefulSet(c, "cn")

\* The descriptor an apply step builds.
Build(c, r, k) ==
    IF k = "cm" THEN MakeConfigMap(c, r)
    ELSE IF k = "svc" THEN MakeService(c, r)
    ELSE IF k = "peer" THEN MakePeerService(c, r)
    ELSE StampedStatefulSet(c, r)

\* applyRes of a role: r.CreateOrUpdate of the configuration bundle, the
\* service or the peer service.
ApplyObject(r) ==
    /\ Running /\ CurStage = r /\ path = "apply"
    /\ step <= Len(ApplySteps(r))
    /\ ApplySteps(r)[step] \in {"cm", "svc", "peer"}
    /\ UNCHANGED <<spec, cr, binding, passes, events, quiet, deleted>>
    /\ LET k   == ApplySteps(r)[step]
           key == <<r, k>>
           obj == Build(cr, r, k)
       IN \E ok \in BOOLEAN :
            /\ Outcome(ok)
            /\ store' = IF ok THEN CreateOrUpdateStore(store, key, obj) ELSE store
            /\ Logs(r, "CreateOrUpdate", key, {obj},
                    IF ok THEN CreateOrUpdateEffect(store, key, obj) ELSE "error")
            /\ IF ok
               THEN Proceeds /\ statefulSet' = Nil
               ELSE Returns(clusterStageFail(ApplyFailStage(r, k),
                            StageActionApply, ErrorOf("CreateOrUpdate", key)))

\* applyRes of recCnResources: r.FindRefDorisAutoScaler, after the workload set
\* has been built and stamped and before it is applied.
FindRefDorisAutoScaler ==
    /\ Running /\ CurStage = "cn" /\ path = "apply"
    /\ step <= Len(ApplySteps("cn"))
    /\ ApplySteps("cn")[step] = "lookup"
    /\ UNCHANGED <<spec, cr, binding, store, passes, events, quiet, deleted>>
    /\ LET key == <<"cn", "autoscaler">>
       IN \E ok \in BOOLEAN :
            /\ Outcome(ok)
            /\ Logs("cn", "FindRefDorisAutoScaler", key, Nil,
                    IF ~ok THEN "error" ELSE IF binding THEN "found" ELSE "absent")
            /\ IF ok
               THEN Proceeds /\ statefulSet' = {CnStatefulSet(cr, binding)}
               ELSE Returns(clusterStageFail(StageStatefulSet["cn"],
                            StageActionApply,
                            ErrorOf("FindRefDorisAutoScaler", key)))

\* applyRes of a role: r.CreateOrUpdate(statefulSet), then the stage succeeds.
ApplyStatefulSet(r) ==
    /\ Running /\ CurStage = r /\ path = "apply"
    /\ step <= Len(ApplySteps(r))
    /\ ApplySteps(r)[step] = "sts"
    /\ UNCHANGED <<spec, cr, binding, passes, events, quiet, deleted>>
    /\ LET key == <<r, "sts">>
           obj == IF statefulSet # Nil THEN CHOOSE o \in statefulSet : TRUE
                  ELSE Build(cr, r, "sts")
       IN \E ok \in BOOLEAN :
            /\ Outcome(ok)
            /\ store' = IF ok THEN CreateOrUpdateStore(store, key, obj) ELSE store
            /\ Logs(r, "CreateOrUpdate", key, {obj},
                    IF ok THEN CreateOrUpdateEffect(store, key, obj) ELSE "error")
            /\ IF ok
               THEN Returns(clusterStageSucc(StageRole[r], StageActionApply))
               ELSE Returns(clusterStageFail(ApplyFailStage(r, "sts"),
                            StageActionApply, ErrorOf("CreateOrUpdate", key)))

\* deleteRes of a role: one r.DeleteWhenExist; after the last the stage succeeds.
DeleteObject(r) ==
    /\ Running /\ CurStage = r /\ path = "delete"
    /\ step <= Len(DeleteSteps(r))
    /\ UNCHANGED <<spec, cr, binding, passes, events, quiet>>
    /\ LET k   == DeleteSteps(r)[step]
           key == <<r, k>>
       IN \E ok \in BOOLEAN :
            /\ Outcome(ok)
            /\ store' = IF ok THEN DeleteWhenExistStore(store, key) ELSE store
            /\ deleted' = IF ok /\ store[key] # Nil THEN deleted \cup {key}
                          ELSE deleted
            /\ Logs(r, "DeleteWhenExist", key, Nil,
                    IF ok THEN DeleteWhenExistEffect(store, key) ELSE "error")
            /\ IF ~ok
               THEN Returns(clusterStageFail(DeleteFailStage(r, k),
                            StageActionDelete, ErrorOf("DeleteWhenExist", key)))
               ELSE IF step = Len(DeleteSteps(r))
               THEN Returns(clusterStageSucc(StageRole[r], StageActionDelete))
               ELSE Proceeds /\ statefulSet' = Nil

\* ------------------------------------------------------------ environment
\* The edits of one role's sub-spec: declare the role, remove it, change its
\* configuration entries or change its replica count.
Edits(s) ==
    IF s = Nil THEN {{d} : d \in SubSpecs}
    ELSE {Nil}
         \cup {{[cfg |-> c, replicas |-> d.replicas]} : c \in 1..MaxCfg, d \in s}
         \cup {{[cfg |-> d.cfg, replicas |-> n]} : n \in 1..MaxReplicas, d \in s}

\* The user edits the sub-spec of one role.
UpdateSpec ==
    /\ ~Running /\ events < MaxEvents
    /\ \E r \in Roles : \E s \in Edits(spec[r]) \ {spec[r]} :
            spec' = [spec EXCEPT ![r] = s]
    /\ events' = events + 1
    /\ stable' = FALSE /\ quiet' = FALSE
    /\ UNCHANGED <<cr, binding, store, stage, step, path, statefulSet, calls,
                   stageRes, ret, passes, failures, snap, deleted>>

\* A DorisAutoScaler for the cluster is created or removed.
BindAutoScaler ==
    /\ ~Running /\ events < MaxEvents
    /\ binding' = ~binding
    /\ events' = events + 1
    /\ stable' = FALSE /\ quiet' = FALSE
    /\ UNCHANGED <<spec, cr, store, stage, step, path, statefulSet, calls, stageRes,
                   ret, passes, failures, snap, deleted>>

\* The bound autoscaler writes the replica count of the live CN workload set.
AutoScalerScale ==
    /\ ~Running /\ events < MaxEvents
    /\ binding /\ store[<<"cn", "sts">>] # Nil
    /\ \E n \in 1..MaxReplicas :
        /\ Live(store, <<"cn", "sts">>).replicas # {n}
        /\ store' = [store EXCEPT ![<<"cn", "sts">>] =
                        {[Live(store, <<"cn", "sts">>) EXCEPT !.replicas = {n}]}]
    /\ events' = events + 1
    /\ stable' = FALSE /\ quiet' = FALSE
    /\ UNCHANGED <<spec, cr, binding, stage, step, path, statefulSet, calls, stageRes,
                   ret, passes, failures, snap, deleted>>

Next ==
    \/ StartReconcile
    \/ SecretExist
    \/ SecretCreate
    \/ \E r \in Roles : ApplyObject(r)
    \/ FindRefDorisAutoScaler
    \/ \E r \in Roles : ApplyStatefulSet(r)
    \/ \E r \in Roles : DeleteObject(r)
    \/ UpdateSpec
    \/ BindAutoScaler
    \/ AutoScalerScale

Spec == Init /\ [][Next]_vars

\* The steps of a running pass.  Reconcile is one synchronous call: once
\* entered it runs on until it returns.
PassStep ==
    \/ SecretExist
    \/ SecretCreate
    \/ \E r \in Roles : ApplyObject(r)
    \/ FindRefDorisAutoScaler
    \/ \E r \in Roles : ApplyStatefulSet(r)
    \/ \E r \in Roles : DeleteObject(r)

FairSpec == Spec /\ WF_vars(PassStep)

\* The host controller triggers Reconcile for the cluster whenever the last
\* pass did not return the complete result or something has changed since.
Retrigger ==
    /\ ~Running /\ ~stable
    /\ passes' = passes + 1
    /\ cr' = spec
    /\ stage' = 1 /\ step' = 1 /\ path' = StagePath(spec, stages[1])
    /\ calls' = <<>> /\ stageRes' = <<>> /\ ret' = Nil
    /\ statefulSet' = Nil
    /\ quiet' = stable
    /\ UNCHANGED <<spec, binding, store, events, failures, stable, snap, deleted>>

HealNext ==
    \/ Retrigger
    \/ PassStep
    \/ UpdateSpec
    \/ BindAutoScaler
    \/ AutoScalerScale

\* Passes are triggered by the host controller alone, which does not give up.
HealSpec == Init /\ [][HealNext]_vars /\ WF_vars(Retrigger \/ PassStep)

\* ============================================================ FE builders
\* The FE builders of internal/transformer/fe_resources.go, applied to a
\* cluster resource whose FE sub-spec carries its configuration entries key by
\* key.  Under Builders the variable cr holds that cluster resource and store
\* holds what the builders returned for it; the other variables stay as Init
\* leaves them.

DefaultFeHttpPort    == 8030
DefaultFeEditLogPort == 9010
DefaultFeRpcPort     == 9020
DefaultFeQueryPort   == 9030

\* The port keys of fe.conf and the values a sub-spec may give them.
FeConfKeys == {"http_port", "edit_log_port", "rpc_port", "query_port"}

FeConfValues == {"8040", "9040"}

\* strconv on the values above.
Atoi == [s \in FeConfValues |-> IF s = "8040" THEN 8040 ELSE 9040]

\* cr.Spec.FE.Configs: key -> Nil (the key is absent) or {value}
FeConfigs == [FeConfKeys -> {Nil} \cup {{v} : v \in FeConfValues}]

\* cr.Spec.FE.Service: the node ports the user declares.
FeServices ==
    {Nil} \cup {{[HttpPort |-> h, QueryPort |-> q]} :
                    h \in {Nil, {30080}}, q \in {Nil, {30090}}}

\* cr.Spec.FE
FeSpecs ==
    [Configs : FeConfigs, Replicas : 1..MaxReplicas, Affinity : {Nil, {"zone"}},
     Service : FeServices]

\* cr.Spec.HadoopConf.Config
HadoopConfs == {Nil, {{<<"core-site.xml", "fs">>}}}

\* The cluster resources the builders are applied to.
ClusterResources ==
    [FE : {Nil} \cup {{f} : f \in FeSpecs}, HadoopConf : HadoopConfs]

FE(c) == CHOOSE f \in c.FE : TRUE

\* The value of `key` in the raw configuration, `default` when absent.
getPortValueFromRawConf(conf, key, default) ==
    IF conf[key] = Nil THEN default
    ELSE Atoi[CHOOSE v \in conf[key] : TRUE]

GetFeHttpPort(c) ==
    IF c.FE = Nil THEN DefaultFeHttpPort
    ELSE getPortValueFromRawConf(FE(c).Configs, "http_port", DefaultFeHttpPort)

GetFeQueryPort(c) ==
    IF c.FE = Nil THEN DefaultFeQueryPort
    ELSE getPortValueFromRawConf(FE(c).Configs, "query_port", DefaultFeQueryPort)

GetFeRpcPort(c) ==
    IF c.FE = Nil THEN DefaultFeRpcPort
    ELSE getPortValueFromRawConf(FE(c).Configs, "query_port", DefaultFeRpcPort)

GetFeEditLogPort(c) ==
    IF c.FE = Nil THEN DefaultFeEditLogPort
    ELSE getPortValueFromRawConf(FE(c).Configs, "edit_log_port",
                                 DefaultFeEditLogPort)

\* The rendered fe.conf: one "key = value" line per entry.
dumpJavaBasedComponentConf(conf) ==
    {<<k, v>> \in FeConfKeys \X FeConfValues : conf[k] = {v}}

\* util.MergeMaps: the entries of major and those of minor under other keys.
MergeMaps(major, minor) ==
    major \cup {e \in minor : \A m \in major : m[1] # e[1]}

\* corev1.ServicePort; NodePort 0 is the unset field.
ServicePort(name, port, nodePort) ==
    [Name |-> name, Port |-> port, NodePort |-> nodePort]

\* corev1.ContainerPort
ContainerPort(name, port) == [Name |-> name, ContainerPort |-> port]

\* *p of a declared node port
Deref(p) == CHOOSE n \in p : TRUE

\* (mutant) the Hadoop configuration replaces the rendered fe.conf instead of
\* being merged with it
MakeFeConfigMapHadoopOnly(c) ==
    IF c.FE = Nil THEN Nil
    ELSE LET data == {<<"fe.conf", dumpJavaBasedComponentConf(FE(c).Configs)>>}
         IN {[kind |-> "cm",
              Data |-> IF c.HadoopConf # Nil
                       THEN CHOOSE h \in c.HadoopConf : TRUE
                       ELSE data]}

MakeFeConfigMap(c) ==
    IF c.FE = Nil THEN Nil
    ELSE LET data == {<<"fe.conf", dumpJavaBasedComponentConf(FE(c).Configs)>>}
         IN {[kind |-> "cm",
              Data |-> IF c.HadoopConf # Nil
                       THEN MergeMaps(CHOOSE h \in c.HadoopConf : TRUE, data)
                       ELSE data]}

\* The client-facing service: Spec.Ports is <<httpPort, queryPort>>.
MakeFeService(c) ==
    IF c.FE = Nil THEN Nil
    ELSE LET crSvc == FE(c).Service
             svc   == CHOOSE s \in crSvc : TRUE
             httpNodePort ==
                IF crSvc # Nil /\ svc.QueryPort # Nil
                THEN Deref(svc.QueryPort) ELSE 0
             queryNodePort ==
                IF crSvc # Nil /\ svc.HttpPort # Nil
                THEN Deref(svc.HttpPort) ELSE 0
         IN {[kind |-> "svc",
              Ports |-> <<ServicePort("http-port", GetFeHttpPort(c),
                                      httpNodePort),
                          ServicePort("query-port", GetFeQueryPort(c),
                                      queryNodePort)>>]}

\* The headless peer service.
MakeFePeerService(c) ==
    IF c.FE = Nil THEN Nil
    ELSE {[kind |-> "peer",
           Ports |-> <<ServicePort("http-port", GetFeHttpPort(c), 0),
                       ServicePort("edit-log-port", GetFeEditLogPort(c), 0),
                       ServicePort("rpc-port", GetFeRpcPort(c), 0)>>]}

\* The workload set: the ports and the readiness probe of the main container,
\* the annotations and the affinity of the pod template, the replica count.
\* ObjectMeta.Annotations is left unset.
MakeFeStatefulSet(c) ==
    IF c.FE = Nil THEN Nil
    ELSE {[kind |-> "sts",
           Annotations |-> {},
           Replicas |-> {FE(c).Replicas},
           ContainerPorts |->
               <<ContainerPort("http-port", GetFeHttpPort(c)),
                 ContainerPort("edit-log-port", GetFeEditLogPort(c)),
                 ContainerPort("rpc-port", GetFeRpcPort(c)),
                 ContainerPort("query-port", GetFeQueryPort(c))>>,
           ReadinessProbePort |-> GetFeQueryPort(c),
           TemplateAnnotations |->
               {<<"prometheus.io/path", "/metrics">>,
                <<"prometheus.io/port", GetFeHttpPort(c)>>,
                <<"prometheus.io/scrape", "true">>},
           Affinity |-> FE(c).Affinity]}

\* recFeResources.applyRes: the workload set as it is handed to CreateOrUpdate,
\* stamped with the hash of the data of the configuration bundle just built.
FeStatefulSetWithHash(c) ==
    {[s EXCEPT !.Annotations =
        {a \in s.Annotations : a[1] # FeConfHashAnnotationKey}
            \cup {<<FeConfHashAnnotationKey, MapMd5(m.Data)>>}] :
        s \in MakeFeStatefulSet(c), m \in MakeFeConfigMap(c)}

\* What the builder of kind k returns for c.
FeBuilder(c, k) ==
    IF k = "cm" THEN MakeFeConfigMap(c)
    ELSE IF k = "svc" THEN MakeFeService(c)
    ELSE IF k = "peer" THEN MakeFePeerService(c)
    ELSE FeStatefulSetWithHash(c)

BuildersInit ==
    /\ cr \in ClusterResources
    /\ spec = [r \in Roles |-> Nil]
    /\ binding = FALSE
    /\ store = [k \in Keys |-> Nil]
    /\ stage = 0 /\ step = 0 /\ path = "none"
    /\ statefulSet = Nil
    /\ calls = <<>> /\ stageRes = <<>> /\ ret = Nil
    /\ passes = 0 /\ events = 0 /\ failures = 0
    /\ stable = FALSE
    /\ snap = [k \in Keys |-> Nil]
    /\ quiet = FALSE
    /\ deleted = {}

\* The order in which recFeResources.applyRes calls the builders.
FeBuildOrder == <<"cm", "svc", "peer", "sts">>

\* One builder is applied to cr, after those applyRes calls before it, and
\* what it returns is kept under the key of the object.
MakeFe(k) ==
    /\ store[<<"fe", k>>] = Nil
    /\ \E i \in 1..Len(FeBuildOrder) :
            /\ FeBuildOrder[i] = k
            /\ \A j \in 1..(i - 1) : store[<<"fe", FeBuildOrder[j]>>] # Nil
    /\ store' = [store EXCEPT ![<<"fe", k>>] = FeBuilder(cr, k)]
    /\ UNCHANGED <<spec, cr, binding, stage, step, path, statefulSet, calls,
                   stageRes, ret, passes, events, failures, stable, snap,
                   quiet, deleted>>

BuildersNext == \E k \in Kinds : MakeFe(k)

Builders == BuildersInit /\ [][BuildersNext]_vars

\* ============================================================ two clusters
\* Passes for two cluster instances against one object store.  Under
\* TwoClusters the variable spec holds the two cluster resources (identity and
\* declared roles), stage and step hold each pass's position, store is keyed
\* by (namespace, name, kind) and calls logs every call with the cluster that
\* issued it; the other variables stay as Init leaves them.  A name is the
\* sequence of the parts that "-" joins: "a-fe-peer" is <<"a", "fe", "peer">>.

Namespaces == {"ns1", "ns2"}

ClusterNames == {<<"a">>, <<"a", "fe">>}

\* cr.Namespace, cr.Name
ClusterIds == [Namespace : Namespaces, Name : ClusterNames]

NamespacedName(namespace, name) == [Namespace |-> namespace, Name |-> name]

GetFeConfigMapName(c) == NamespacedName(c.Namespace, c.Name \o <<"fe", "config">>)

\* (mutant) the service is named without the cluster's name
GetFeServiceNameShared(c) == NamespacedName(c.Namespace, <<"doris", "fe">>)

GetFeServiceName(c) == NamespacedName(c.Namespace, c.Name \o <<"fe">>)

GetFePeerServiceName(c) == NamespacedName(c.Namespace, c.Name \o <<"fe", "peer">>)

GetFeStatefulSetName(c) == NamespacedName(c.Namespace, c.Name \o <<"fe">>)

\* The names of the other roles' objects and of the secret follow the same
\* pattern: "<cluster-name>-<role>", "<cluster-name>-<role>-peer", ...
GetRoleObjectName(c, r, k) ==
    NamespacedName(c.Namespace,
        c.Name \o <<r>> \o (IF k = "cm" THEN <<"config">>
                            ELSE IF k = "peer" THEN <<"peer">> ELSE <<>>))

GetOprSqlAccountSecretName(c) ==
    NamespacedName(c.Namespace, c.Name \o <<"opr", "account">>)

\* The kind of object a step is about.
ObjectKind(k) ==
    IF k = "cm" THEN "ConfigMap"
    ELSE IF k \in {"svc", "peer"} THEN "Service"
    ELSE IF k = "sts" THEN "StatefulSet"
    ELSE "Secret"

\* The key under which the object store holds the object: its kind and its
\* namespaced name.
ObjectKey(c, r, k) ==
    LET n == IF r = "secret" THEN GetOprSqlAccountSecretName(c)
             ELSE IF r # "fe" THEN GetRoleObjectName(c, r, k)
             ELSE IF k = "cm" THEN GetFeConfigMapName(c)
             ELSE IF k = "svc" THEN GetFeServiceName(c)
             ELSE IF k = "peer" THEN GetFePeerServiceName(c)
             ELSE GetFeStatefulSetName(c)
    IN [Kind |-> ObjectKind(k), Namespace |-> n.Namespace, Name |-> n.Name]

\* The keys of the objects a cluster's passes manage.
KeysOf(c) ==
    {ObjectKey(c, "secret", "secret")}
        \cup {ObjectKey(c, p[1], p[2]) :
                p \in {q \in Roles \X Kinds : q[2] \in RoleKinds(q[1])}}

\* recOprAccountSecret creates the secret when Exist reports its key absent.
NeedsCreateAt(s, key) == s[key] = Nil

Clusters == 1..2

\* The sets of roles a cluster resource declares.
DeclaredRoles == {{"fe"}, {"fe", "cn"}, {"be", "broker"}}

\* The spec of cluster i declaring the roles of d.
ClusterSpec(i, d) ==
    [r \in Roles |->
        IF r \in d THEN {[cfg |-> ((i - 1) % MaxCfg) + 1, replicas |-> MaxReplicas]}
        ELSE Nil]

\* Every role of both clusters as an earlier pass for a spec declaring all
\* four roles left it.
Deployed(ids) ==
    LET all(i) == ClusterSpec(i + 1, Roles)
        keys   == UNION {KeysOf(ids[i]) : i \in Clusters}
    IN [key \in keys |->
            IF \E i \in Clusters : key = ObjectKey(ids[i], "secret", "secret")
            THEN {MakeOprSqlAccountSecret}
            ELSE LET i == CHOOSE j \in Clusters : key \in KeysOf(ids[j])
                     p == CHOOSE q \in Roles \X Kinds :
                            /\ q[2] \in RoleKinds(q[1])
                            /\ key = ObjectKey(ids[i], q[1], q[2])
                 IN {Build(all(i), p[1], p[2])}]

TwoInit ==
    /\ \E ids \in [Clusters -> ClusterIds] : \E d \in [Clusters -> DeclaredRoles] :
        /\ ids[1] # ids[2]
        /\ spec = [i \in Clusters |->
                    [id |-> ids[i], roles |-> ClusterSpec(i, d[i])]]
        /\ store \in {[key \in UNION {KeysOf(ids[i]) : i \in Clusters} |-> Nil],
                      Deployed(ids)}
    /\ cr = [r \in Roles |-> Nil]
    /\ binding = FALSE
    /\ stage = [i \in Clusters |-> 0] /\ step = [i \in Clusters |-> 0]
    /\ path = "none"
    /\ statefulSet = Nil
    /\ calls = <<>> /\ stageRes = <<>> /\ ret = Nil
    /\ passes = 0 /\ events = 0 /\ failures = 0
    /\ stable = FALSE
    /\ snap = [k \in Keys |-> Nil]
    /\ quiet = FALSE
    /\ deleted = {}

\* Reconcile is entered for cluster i.
TwoStart(i) ==
    /\ stage[i] = 0
    /\ stage' = [stage EXCEPT ![i] = 1]
    /\ step' = [step EXCEPT ![i] = 1]
    /\ UNCHANGED <<spec, cr, binding, store, path, statefulSet, calls, stageRes,
                   ret, passes, events, failures, stable, snap, quiet, deleted>>

\* The next call of the pass for cluster i; every call succeeds.  calls holds
\* the call just made.
TwoStep(i) ==
    /\ stage[i] \in 1..Len(stages)
    /\ LET c     == spec[i].id
           roles == spec[i].roles
           r     == stages[stage[i]]
           apply == StagePath(roles, r) = "apply"
           steps == IF r = "secret" THEN <<"exist", "create">>
                    ELSE IF apply THEN ApplySteps(r) ELSE DeleteSteps(r)
           k     == steps[step[i]]
           key   == ObjectKey(c, r, IF r = "secret" THEN "secret" ELSE k)
           op    == IF k = "exist" THEN "Exist"
                    ELSE IF k = "create" THEN "Create"
                    ELSE IF k = "lookup" THEN "FindRefDorisAutoScaler"
                    ELSE IF apply THEN "CreateOrUpdate" ELSE "DeleteWhenExist"
           last  == \/ step[i] = Len(steps)
                    \/ k = "exist" /\ ~NeedsCreateAt(store, key)
       IN /\ store' =
                IF k = "exist" \/ k = "lookup" THEN store
                ELSE IF k = "create"
                THEN [store EXCEPT ![key] = {MakeOprSqlAccountSecret}]
                ELSE IF ~apply THEN DeleteWhenExistStore(store, key)
                ELSE IF r = "cn" /\ k = "sts"
                THEN CreateOrUpdateStore(store, key, CnStatefulSet(roles, binding))
                ELSE CreateOrUpdateStore(store, key, Build(roles, r, k))
          /\ calls' = IF k = "lookup" THEN calls
                      ELSE <<[cluster |-> i, op |-> op, key |-> key]>>
          /\ stage' = [stage EXCEPT ![i] = IF last THEN @ + 1 ELSE @]
          /\ step' = [step EXCEPT ![i] = IF last THEN 1 ELSE @ + 1]
    /\ UNCHANGED <<spec, cr, binding, path, statefulSet, stageRes, ret, passes,
                   events, failures, stable, snap, quiet, deleted>>

TwoNext == \E i \in Clusters : TwoStart(i) \/ TwoStep(i)

TwoClusters == TwoInit /\ [][TwoNext]_vars

\* ============================================================ util: merged errors
\* An error value is Nil or the singleton of an error; a *MultiError and a
\* *MultiTaggedError are Nil or the singleton of a record with field Errors.
\* In this specification calls holds the errs MergeErrors is given and ret what
\* it returned, cr the map MergeErrorsWithTag is given and statefulSet what it
\* returned; stage and step tell whether each function has been called.

ErrorValues == {Nil, {"e1"}, {"e2"}}

Tags == {"t1", "t2"}

BoundedSeq(S, n) == UNION {[1..m -> S] : m \in 0..n}

\* (mutant) the nil errors are appended as well
MergeErrorsKeepsNil(errs) ==
    IF Len(errs) = 0 THEN Nil ELSE {[Errors |-> errs]}

MergeErrors(errs) ==
    LET errorList == SelectSeq(errs, LAMBDA err : err # Nil)
    IN IF Len(errorList) = 0 THEN Nil ELSE {[Errors |-> errorList]}

MergeErrorsWithTag(errors) ==
    LET kept   == {tag \in DOMAIN errors : errors[tag] # Nil}
        errMap == [tag \in kept |-> errors[tag]]
    IN IF kept = {} THEN Nil ELSE {[Errors |-> errMap]}

MergingInit ==
    /\ calls \in BoundedSeq(ErrorValues, MaxErrs)
    /\ cr \in UNION {[D -> ErrorValues] : D \in SUBSET Tags}
    /\ stage = 0 /\ step = 0
    /\ ret = Nil /\ statefulSet = Nil
    /\ spec = [r \in Roles |-> Nil]
    /\ binding = FALSE
    /\ store = [k \in Keys |-> Nil]
    /\ path = "none"
    /\ stageRes = <<>>
    /\ passes = 0 /\ events = 0 /\ failures = 0
    /\ stable = FALSE
    /\ snap = [k \in Keys |-> Nil]
    /\ quiet = FALSE
    /\ deleted = {}

CallMergeErrors ==
    /\ stage = 0
    /\ ret' = MergeErrors(calls)
    /\ stage' = 1
    /\ UNCHANGED <<spec, cr, binding, store, step, path, statefulSet, calls,
                   stageRes, passes, events, failures, stable, snap, quiet, deleted>>

CallMergeErrorsWithTag ==
    /\ step = 0
    /\ statefulSet' = MergeErrorsWithTag(cr)
    /\ step' = 1
    /\ UNCHANGED <<spec, cr, binding, store, stage, path, ret, calls,
                   stageRes, passes, events, failures, stable, snap, quiet, deleted>>

MergingNext == CallMergeErrors \/ CallMergeErrorsWithTag

Merging == MergingInit /\ [][MergingNext]_vars

\* ============================================================ properties
\* The fixed order of the stages and the identifier a stage reports on success.
StageOrder == <<"secret", "fe", "be", "cn", "broker">>

Ord(s) == CHOOSE i \in 1..Len(StageOrder) : StageOrder[i] = s

SuccStage(k) ==
    IF k = 1 THEN StageSqlAccountSecret ELSE StageRole[StageOrder[k]]

CallIdx == 1..Len(calls)

Writes == {"create", "update", "delete"}

NoCallFailed == \A i \in CallIdx : calls[i].eff # "error"

PassComplete == ~Running /\ ret = {CompleteResult}

\* C1: in every pass the stages start in the order secret, FE, BE, CN, Broker;
\* a stage issues a call only after every earlier stage has returned a result
\* with no error, and the calls of two stages are never interleaved.
C1_StagesInOrder ==
    /\ \A i, j \in CallIdx :
            i < j => Ord(calls[i].stage) <= Ord(calls[j].stage)
    /\ \A i \in CallIdx : \A k \in 1..(Ord(calls[i].stage) - 1) :
            /\ k <= Len(stageRes)
            /\ stageRes[k].Err = Nil
            /\ stageRes[k].Stage = SuccStage(k)
    /\ Running => stage = Len(stageRes) + 1 /\ CurStage = StageOrder[stage]

\* A pass has run all five stages, FE and BE both on their apply path.
C1_Witness ==
    /\ PassComplete
    /\ cr["fe"] # Nil /\ cr["be"] # Nil
    /\ {calls[i].stage : i \in CallIdx} = {"secret"} \cup Roles

\* C2: when a stage returns a non-nil error, Reconcile returns exactly that
\* result and no later stage issues a call in that pass.
C2_AbortOnFirstError ==
    \A k \in 1..Len(stageRes) :
        stageRes[k].Err # Nil =>
            /\ ~Running
            /\ ret = {stageRes[k]}
            /\ k = Len(stageRes)
            /\ \A i \in CallIdx : Ord(calls[i].stage) <= k

\* The FE stage failed in a pass whose spec declares BE, CN and Broker.
C2_Witness ==
    /\ Len(stageRes) = Ord("fe")
    /\ stageRes[Len(stageRes)].Err # Nil
    /\ \A r \in Roles : cr[r] # Nil

AllResults == {stageRes[k] : k \in 1..Len(stageRes)} \cup ret

\* C3: a stage result that carries an error has status failed, and a result
\* has status succeeded if and only if it carries no error.
C3_StatusMatchesError ==
    \A res \in AllResults :
        /\ res.Err # Nil => res.Status = StageResultFailed
        /\ res.Status = StageResultSucceeded <=> res.Err = Nil

\* C4: a role stage takes the apply path iff the role's sub-spec is present
\* in the spec of the pass and the delete path otherwise; its calls and the
\* action of its result are those of that one path, whatever the store holds.
C4_PathFollowsSubSpec ==
    /\ (Running /\ CurStage \in Roles) =>
            /\ path \in {"apply", "delete"}
            /\ path = "apply" <=> cr[CurStage] # Nil
    /\ \A i \in CallIdx : calls[i].stage \in Roles =>
            IF cr[calls[i].stage] # Nil
            THEN calls[i].op \in {"CreateOrUpdate", "FindRefDorisAutoScaler"}
            ELSE calls[i].op = "DeleteWhenExist"
    /\ \A k \in 2..Len(stageRes) :
            stageRes[k].Action = IF cr[StageOrder[k]] # Nil
                                 THEN StageActionApply ELSE StageActionDelete

\* A pass took the delete path for BE, whose objects were in the store, and
\* for Broker, whose objects were not, and the apply path for FE, whose
\* configuration bundle was already in the store.
C4_Witness ==
    /\ \E i \in CallIdx :
            /\ calls[i].key = <<"be", "sts">> /\ calls[i].op = "DeleteWhenExist"
            /\ calls[i].before # Nil
    /\ \E i \in CallIdx :
            /\ calls[i].key = <<"broker", "sts">>
            /\ calls[i].op = "DeleteWhenExist"
            /\ calls[i].before = Nil
    /\ \E i \in CallIdx :
            /\ calls[i].key = <<"fe", "cm">> /\ calls[i].op = "CreateOrUpdate"
            /\ calls[i].before # Nil
    /\ PassComplete

\* C5: a pass that follows a complete pass with the spec, the binding and the
\* store unchanged creates, updates and deletes nothing and leaves the store
\* as the first pass left it.
C5_SecondPassIsNoOp ==
    quiet =>
        /\ \A i \in CallIdx : calls[i].eff \notin Writes
        /\ store = snap

\* Such a second pass has finished, for a spec that declares FE and CN with
\* an autoscaler bound.
C5_Witness ==
    /\ quiet /\ PassComplete
    /\ cr["fe"] # Nil /\ cr["cn"] # Nil /\ binding
    /\ store[<<"cn", "sts">>] # Nil

\* C6: after a complete pass no object of a role whose sub-spec is absent is
\* in the store; a further pass with nothing changed deletes nothing and,
\* when no call fails, returns the complete result.
C6_RemovedRoleIsDeleted ==
    /\ stable => \A r \in Roles : cr[r] = Nil =>
                    \A key \in RoleKeys(r) : store[key] = Nil
    /\ quiet => \A i \in CallIdx :
                    calls[i].op = "DeleteWhenExist" => calls[i].eff # "delete"
    /\ (quiet /\ ~Running /\ NoCallFailed) => ret = {CompleteResult}

\* A role's objects were all deleted by an earlier pass and a further pass
\* with the role still absent has completed.
C6_Witness ==
    /\ quiet /\ PassComplete
    /\ \E r \in Roles : cr[r] = Nil /\ RoleKeys(r) \subseteq deleted

\* C7: when the lookup of the CN apply path finds an autoscaler, the workload
\* set handed to CreateOrUpdate has no replica count, whatever count the CN
\* sub-spec declares and whatever count the live workload set carries.
C7_AutoScalerOwnsReplicas ==
    \A i, j \in CallIdx :
        ( /\ i < j
          /\ calls[i].op = "FindRefDorisAutoScaler" /\ calls[i].eff = "found"
          /\ calls[j].key = <<"cn", "sts">> ) =>
            /\ calls[j].op = "CreateOrUpdate"
            /\ calls[j].obj # Nil
            /\ \A o \in calls[j].obj : o.replicas = Nil

\* An autoscaler was found in a pass over a CN workload set that already
\* carried a replica count, and the workload set was applied.
C7_Witness ==
    \E i, j \in CallIdx :
        /\ i < j
        /\ calls[i].op = "FindRefDorisAutoScaler" /\ calls[i].eff = "found"
        /\ calls[j].key = <<"cn", "sts">> /\ calls[j].eff # "error"
        /\ \E b \in calls[j].before : b.replicas # Nil

LookupFailedAt(i) ==
    calls[i].op = "FindRefDorisAutoScaler" /\ calls[i].eff = "error"

\* C8 as stated: when the autoscaler lookup fails, the CN stage has attempted
\* no apply at all.
C8_NoApplyBeforeLookup ==
    \A i \in CallIdx : LookupFailedAt(i) =>
        \A j \in CallIdx : calls[j].stage = "cn" => calls[j].op # "CreateOrUpdate"

\* C8 amended: when the autoscaler lookup fails, the pass ends there with a
\* result carrying the lookup's error; the CN workload set has not been
\* applied, while the configuration bundle and the two endpoints have.
C8_LookupErrorAbortsBeforeWorkloadSet ==
    \A i \in CallIdx : LookupFailedAt(i) =>
        /\ i = Len(calls) /\ ~Running
        /\ \A res \in ret :
                /\ res.Stage = StageStatefulSet["cn"]
                /\ res.Action = StageActionApply
                /\ res.Err = ErrorOf("FindRefDorisAutoScaler", calls[i].key)
        /\ ret # Nil
        /\ \A j \in CallIdx : calls[j].key # <<"cn", "sts">>
        /\ i >= 4
        /\ calls[i - 3].key = <<"cn", "cm">> /\ calls[i - 3].eff # "error"
        /\ calls[i - 2].key = <<"cn", "svc">> /\ calls[i - 2].eff # "error"
        /\ calls[i - 1].key = <<"cn", "peer">> /\ calls[i - 1].eff # "error"

\* The lookup failed in a pass that had just created CN's configuration bundle.
C8_Witness ==
    \E i, j \in CallIdx :
        /\ LookupFailedAt(i)
        /\ calls[j].key = <<"cn", "cm">> /\ calls[j].eff = "create"

\* A pass for a spec that declares only FE, every object it touched absent
\* from the store when it was touched.
FeOnlyFresh ==
    /\ cr["fe"] # Nil
    /\ \A r \in Roles \ {"fe"} : cr[r] = Nil
    /\ \A i \in CallIdx : calls[i].before = Nil

C10_HashOnPodTemplate ==
    /\ Cardinality({ConfHashAnnotationKey[r] : r \in Roles}) = Cardinality(Roles)
    /\ \A i \in CallIdx :
            (calls[i].op = "CreateOrUpdate" /\ calls[i].key[2] = "sts") =>
                \A o \in calls[i].obj :
                    <<ConfHashAnnotationKey[calls[i].stage],
                      MapMd5(MakeConfigMap(cr, calls[i].stage).data)>>
                        \in o.tplAnnotations

\* ------------------------------------------------------------ C11
\* The values the workload set s carries under the FE hash annotation key.
FeConfHash(s) == {a[2] : a \in {x \in s.Annotations : x[1] = FeConfHashAnnotationKey}}

SecretCallsInOrder ==
    \A i \in CallIdx :
        /\ calls[i].key = SecretKey <=> calls[i].stage = "secret"
        /\ calls[i].stage = "secret" =>
            /\ calls[i].op \in {"Exist", "Create"}
            /\ calls[i].op = "Exist" => i = 1 /\ calls[i].after = calls[i].before
            /\ calls[i].op = "Create" =>
                /\ i = 2
                /\ calls[1].op = "Exist" /\ calls[1].eff = "checked"
                /\ calls[i].before = Nil
            /\ calls[i].eff = "error" =>
                /\ i = Len(calls) /\ ~Running
                /\ calls[i].after = calls[i].before
                /\ ret = {clusterStageFail(StageSqlAccountSecret,
                            StageActionApply, ErrorOf(calls[i].op, SecretKey))}

SecretKept ==
    store[SecretKey] # Nil =>
        /\ store'[SecretKey] = store[SecretKey]
        /\ Len(calls') > Len(calls) => calls'[Len(calls')].op # "Create"

\* C12: the secret stage issues Exist and, only when Exist reported the secret
\* absent, Create, and nothing else touches the secret; once the secret is in
\* the store no step of any pass changes it or issues Create for it again;
\* when Exist or Create returns an error the pass ends there with that error
\* and no role stage has issued a call.
C12_SecretCreatedOnce == []SecretCallsInOrder /\ [][SecretKept]_vars

\* A later pass found the secret an earlier pass had created and went on to
\* the FE stage without creating it.
C12_Witness ==
    /\ passes >= 2
    /\ Len(calls) >= 2
    /\ calls[1].op = "Exist" /\ calls[1].before = {MakeOprSqlAccountSecret}
    /\ calls[2].stage = "fe"

\* ------------------------------------------------------------ C13
\* The stage identifier that names the object kind of a step.
StageOfKind(r, k) ==
    IF k = "cm" THEN StageConfigmap[r]
    ELSE IF k \in {"svc", "peer"} THEN StageService[r]
    ELSE StageStatefulSet[r]

\* C13: when a step of a role's delete path fails the pass ends at that step,
\* the returned result carries the step's error and the stage identifier of
\* the step that failed (workload set, endpoint or configuration bundle), the
\* objects the earlier steps deleted are still absent and no later delete step
\* was attempted.
C13_DeleteFailureReportsStep ==
    \A i \in CallIdx :
        (calls[i].op = "DeleteWhenExist" /\ calls[i].eff = "error") =>
            /\ i = Len(calls) /\ ~Running
            /\ ret # Nil
            /\ \A res \in ret :
                /\ res.Err = ErrorOf("DeleteWhenExist", calls[i].key)
                /\ res.Action = StageActionDelete
                /\ res.Stage = StageOfKind(calls[i].key[1], calls[i].key[2])
            /\ \A j \in 1..(i - 1) :
                    calls[j].stage = calls[i].stage => store[calls[j].key] = Nil

\* ------------------------------------------------------------ C14
ApplyCallFailed(c) ==
    c.op \in {"CreateOrUpdate", "FindRefDorisAutoScaler"} /\ c.eff = "error"

\* The failed apply step is the last call of the pass and its error is what
\* Reconcile returned, under the stage identifier of the step's object kind
\* (the workload set for the autoscaler lookup).
ApplyFailureReported ==
    \A i \in CallIdx : ApplyCallFailed(calls[i]) =>
        /\ i = Len(calls) /\ ~Running
        /\ ret # Nil
        /\ \A res \in ret :
            /\ res.Err = ErrorOf(calls[i].op, calls[i].key)
            /\ res.Action = StageActionApply
            /\ res.Stage =
                IF calls[i].op = "FindRefDorisAutoScaler"
                THEN StageStatefulSet["cn"]
                ELSE StageOfKind(calls[i].key[1], calls[i].key[2])

\* The step in which an apply call fails changes nothing in the store: what
\* the earlier calls of the pass wrote is there as written.
ApplyFailureKeepsWrites ==
    (Len(calls') = Len(calls) + 1 /\ ApplyCallFailed(calls'[Len(calls')])) =>
        /\ store' = store
        /\ \A j \in CallIdx :
                calls[j].eff \in {"create", "update"} =>
                    store'[calls[j].key] = calls[j].after

\* C14: when a step of a role's apply path fails the stage returns at once
\* with that step's error and the stage identifier of the step's object kind,
\* no later step is attempted, and every object the earlier steps and stages
\* of the pass created or updated stays in the store as written.
C14_ApplyFailureNoRollback ==
    []ApplyFailureReported /\ [][ApplyFailureKeepsWrites]_vars

\* BE's workload set failed to apply in a pass that had created FE's workload
\* set and BE's configuration bundle.
C14_Witness ==
    \E i, j, k \in CallIdx :
        /\ calls[i].key = <<"be", "sts">> /\ ApplyCallFailed(calls[i])
        /\ calls[j].key = <<"fe", "sts">> /\ calls[j].eff = "create"
        /\ calls[k].key = <<"be", "cm">> /\ calls[k].eff = "create"
        /\ store[<<"fe", "sts">>] # Nil /\ store[<<"be", "cm">>] # Nil

\* ------------------------------------------------------------ C15
\* The configuration key a named FE port is to be read from, and its default.
FePortKey ==
    [p \in {"http-port", "edit-log-port", "rpc-port", "query-port"} |->
        IF p = "http-port" THEN "http_port"
        ELSE IF p = "edit-log-port" THEN "edit_log_port"
        ELSE IF p = "rpc-port" THEN "rpc_port"
        ELSE "query_port"]

FePortDefault ==
    [p \in DOMAIN FePortKey |->
        IF p = "http-port" THEN 8030
        ELSE IF p = "edit-log-port" THEN 9010
        ELSE IF p = "rpc-port" THEN 9020
        ELSE 9030]

\* The number the named port is to have for c.
FePortWanted(c, p) ==
    IF c.FE = Nil \/ FE(c).Configs[FePortKey[p]] = Nil THEN FePortDefault[p]
    ELSE Atoi[CHOOSE v \in FE(c).Configs[FePortKey[p]] : TRUE]

\* C15: each named FE port is the value of its own like-named configuration
\* key, or the compiled-in default when the key is absent: every port entry
\* of the endpoints and of the main container the builders return carries the
\* number read for its own name.
C15_PortsReadOwnKey ==
    /\ \A k \in {"svc", "peer"} : \A s \in store[<<"fe", k>>] :
            \A i \in 1..Len(s.Ports) :
                s.Ports[i].Port = FePortWanted(cr, s.Ports[i].Name)
    /\ \A s \in store[<<"fe", "sts">>] : \A i \in 1..Len(s.ContainerPorts) :
            s.ContainerPorts[i].ContainerPort =
                FePortWanted(cr, s.ContainerPorts[i].Name)

\* ------------------------------------------------------------ C16
DeleteOrder(r) ==
    IF r = "broker" THEN <<"sts", "peer", "cm">>
    ELSE <<"sts", "svc", "peer", "cm">>

\* C16: the n-th delete-if-exists call of a role's delete path is for the
\* n-th kind of workload set, client-facing endpoint, peer endpoint,
\* configuration bundle (Broker: workload set, peer endpoint, configuration
\* bundle); and in a pass that takes the delete path for a role, the role's
\* configuration bundle is absent only if its workload set is absent.
C16_DeleteOrder ==
    /\ \A i \in CallIdx : calls[i].op = "DeleteWhenExist" =>
        LET r == calls[i].stage
            n == Cardinality({j \in 1..i : calls[j].stage = r})
        IN /\ n <= Len(DeleteOrder(r))
           /\ calls[i].key = <<r, DeleteOrder(r)[n]>>
    /\ \A r \in Roles :
        (passes >= 1 /\ cr[r] = Nil /\ store[<<r, "cm">>] = Nil) =>
            store[<<r, "sts">>] = Nil

\* A delete path has removed the role's workload set and endpoints and is
\* about to remove the configuration bundle, which is still in the store.
C16_Witness ==
    /\ Running /\ path = "delete"
    /\ step = Len(DeleteSteps(CurStage))
    /\ <<CurStage, "sts">> \in deleted /\ <<CurStage, "peer">> \in deleted
    /\ store[<<CurStage, "sts">>] = Nil
    /\ store[<<CurStage, "cm">>] # Nil

\* ------------------------------------------------------------ C17
\* C17: whenever a pass has written (or found unchanged) a role's workload
\* set, an earlier call of that pass applied the role's configuration bundle
\* without error, that bundle is what the store holds for the role, and the
\* hash the stored workload set carries is the hash of its content.
C17_ConfigBeforeWorkloadSet ==
    \A i \in CallIdx :
        ( /\ calls[i].op = "CreateOrUpdate" /\ calls[i].key[2] = "sts"
          /\ calls[i].eff # "error" ) =>
            LET r == calls[i].stage
            IN \E j \in 1..(i - 1) :
                /\ calls[j].op = "CreateOrUpdate"
                /\ calls[j].key = <<r, "cm">>
                /\ calls[j].eff # "error"
                /\ calls[j].after # Nil
                /\ store[<<r, "cm">>] = calls[j].after
                /\ calls[i].after # Nil
                /\ \A o \in calls[i].after : \A m \in calls[j].after :
                    {a[2] : a \in {x \in o.annotations :
                                    x[1] = ConfHashAnnotationKey[r]}}
                        = {MapMd5(m.data)}

\* A pass updated a role's configuration bundle to new content and then
\* updated the role's workload set.
C17_Witness ==
    \E i, j \in CallIdx :
        /\ j < i
        /\ calls[j].key = <<calls[i].stage, "cm">> /\ calls[j].eff = "update"
        /\ calls[i].key[2] = "sts" /\ calls[i].eff = "update"

\* ------------------------------------------------------------ C18
AllStagesSucceeded ==
    /\ Len(stageRes) = Len(StageOrder)
    /\ \A k \in 1..Len(stageRes) : stageRes[k].Err = Nil

C19_LookupOnlyInCnApply ==
    \A i \in CallIdx :
        /\ calls[i].op = "FindRefDorisAutoScaler" =>
            /\ calls[i].stage = "cn" /\ cr["cn"] # Nil
            /\ \A j \in CallIdx \ {i} : calls[j].op # "FindRefDorisAutoScaler"
        /\ (calls[i].op = "CreateOrUpdate" /\ calls[i].key[2] = "sts") =>
            LET r == calls[i].stage
            IN /\ calls[i].obj # Nil
               /\ r # "cn" =>
                    \A o \in calls[i].obj : o.replicas = {Sub(cr, r).replicas}
               /\ r = "cn" =>
                    /\ i > 1 /\ calls[i - 1].op = "FindRefDorisAutoScaler"
                    /\ calls[i - 1].eff \in {"found", "absent"}
                    /\ calls[i - 1].eff = "absent" =>
                        \A o \in calls[i].obj :
                            o.replicas = {Sub(cr, "cn").replicas}

\* With an autoscaler bound, a complete pass created FE's and Broker's
\* workload sets and ran the delete path for CN.
C19_Witness ==
    /\ PassComplete /\ binding
    /\ cr["cn"] = Nil
    /\ \E i, j \in CallIdx :
        /\ calls[i].key = <<"fe", "sts">> /\ calls[i].eff = "create"
        /\ calls[j].key = <<"broker", "sts">> /\ calls[j].eff = "create"

\* ------------------------------------------------------------ C20
\* The node port declared for the field, 0 when none is declared.
DeclaredNodePort(c, field) ==
    IF FE(c).Service = Nil THEN 0
    ELSE LET p == (CHOOSE s \in FE(c).Service : TRUE)[field]
         IN IF p = Nil THEN 0 ELSE CHOOSE n \in p : TRUE

\* C20: a port name that appears on an FE endpoint (client-facing or peer)
\* and on the FE main container has the same number in both places; the
\* readiness probe targets the container's query port; on the client-facing
\* endpoint the node port declared as HttpPort is on the http-port entry and
\* the one declared as QueryPort on the query-port entry.
C20_PortsConsistent ==
    /\ \A k \in {"svc", "peer"} : \A e \in store[<<"fe", k>>] :
        \A w \in store[<<"fe", "sts">>] :
            \A i \in 1..Len(e.Ports) : \A j \in 1..Len(w.ContainerPorts) :
                e.Ports[i].Name = w.ContainerPorts[j].Name =>
                    e.Ports[i].Port = w.ContainerPorts[j].ContainerPort
    /\ \A w \in store[<<"fe", "sts">>] : \A j \in 1..Len(w.ContainerPorts) :
            w.ContainerPorts[j].Name = "query-port" =>
                w.ReadinessProbePort = w.ContainerPorts[j].ContainerPort
    /\ \A e \in store[<<"fe", "svc">>] : \A i \in 1..Len(e.Ports) :
        /\ e.Ports[i].Name = "http-port" =>
                e.Ports[i].NodePort = DeclaredNodePort(cr, "HttpPort")
        /\ e.Ports[i].Name = "query-port" =>
                e.Ports[i].NodePort = DeclaredNodePort(cr, "QueryPort")

\* ------------------------------------------------------------ C21
\* A pass issues each call at most once and at most 18 calls in all (2 for
\* the secret, 4 for FE, 4 for BE, 5 for CN, 3 for Broker); a pass that has
\* ended returned either the result of the first stage that carried an error
\* or, after five results without error, the complete result.
PassIsBounded ==
    /\ Len(calls) <= 18
    /\ \A i, j \in CallIdx :
            i < j => <<calls[i].op, calls[i].key>> # <<calls[j].op, calls[j].key>>
    /\ Running => ret = Nil
    /\ (~Running /\ passes >= 1) =>
        /\ Len(stageRes) \in 1..5
        /\ \A k \in 1..(Len(stageRes) - 1) : stageRes[k].Err = Nil
        /\ \/ /\ stageRes[Len(stageRes)].Err # Nil
              /\ ret = {stageRes[Len(stageRes)]}
           \/ /\ stageRes[Len(stageRes)].Err = Nil
              /\ Len(stageRes) = 5
              /\ ret = {CompleteResult}

StoreMatchesSpec ==
    /\ store[SecretKey] # Nil
    /\ \A r \in Roles : \A key \in RoleKeys(r) :
            store[key] # Nil <=> spec[r] # Nil
    /\ \A r \in Roles : store[<<r, "svc">>] # Nil => <<r, "svc">> \in RoleKeys(r)

AloneResult(i, key) ==
    LET c == spec[i].id
        roles == spec[i].roles
    IN IF key = ObjectKey(c, "secret", "secret") THEN {MakeOprSqlAccountSecret}
       ELSE LET p == CHOOSE q \in Roles \X Kinds :
                        /\ q[2] \in RoleKinds(q[1])
                        /\ key = ObjectKey(c, q[1], q[2])
            IN IF roles[p[1]] = Nil THEN Nil
               ELSE IF p[1] = "cn" /\ p[2] = "sts"
               THEN {CnStatefulSet(roles, binding)}
               ELSE {Build(roles, p[1], p[2])}

OtherCluster(i) == 3 - i

PassDone(i) == stage[i] = Len(stages) + 1

\* C23: the passes for two different cluster instances, interleaved in any
\* way, never touch an object key of the other cluster: the keys of the two
\* clusters are disjoint, every call of a pass is on a key of its own
\* cluster, and once a pass has ended the keys of its cluster hold what the
\* pass leaves when it runs alone.
C23_ClustersIsolated ==
    /\ KeysOf(spec[1].id) \cap KeysOf(spec[2].id) = {}
    /\ calls # <<>> =>
        /\ calls[1].key \in KeysOf(spec[calls[1].cluster].id)
        /\ calls[1].key \notin KeysOf(spec[OtherCluster(calls[1].cluster)].id)
    /\ \A i \in Clusters :
        PassDone(i) =>
            \A key \in KeysOf(spec[i].id) : store[key] = AloneResult(i, key)

\* Both passes are under way in one namespace, the second cluster's name
\* extending the first one's, and the pass of cluster 1 has ended while the
\* pass of cluster 2, which made the last call, is in the middle of a stage.
C23_Witness ==
    /\ spec[1].id.Namespace = spec[2].id.Namespace
    /\ spec[1].id.Name = <<"a">> /\ spec[2].id.Name = <<"a", "fe">>
    /\ PassDone(1)
    /\ stage[2] \in 2..Len(stages) /\ step[2] > 1
    /\ calls # <<>> /\ calls[1].cluster = 2
    /\ \E key \in KeysOf(spec[2].id) : store[key] # Nil


\* ---- C24 ----
\* The positions of errs that hold an error.
NonNilAt(errs) == {i \in 1..Len(errs) : errs[i] # Nil}

\* The position in errs of its j-th error.
NthError(errs, j) ==
    CHOOSE i \in NonNilAt(errs) :
        Cardinality({k \in NonNilAt(errs) : k <= i}) = j

Only(s) == CHOOSE x \in s : TRUE

\* C24: MergeErrors and MergeErrorsWithTag return nil exactly when every
\* input error is nil (an empty input included); otherwise the result holds
\* exactly the input's errors that are not nil, MergeErrors in the order of
\* the input and MergeErrorsWithTag each under the tag it came with.
C24_MergeKeepsErrors ==
    /\ stage = 1 =>
        /\ ret = Nil <=> \A i \in 1..Len(calls) : calls[i] = Nil
        /\ ret # Nil =>
            /\ Len(Only(ret).Errors) = Cardinality(NonNilAt(calls))
            /\ \A j \in 1..Len(Only(ret).Errors) :
                Only(ret).Errors[j] = calls[NthError(calls, j)]
    /\ step = 1 =>
        /\ statefulSet = Nil <=> \A tag \in DOMAIN cr : cr[tag] = Nil
        /\ statefulSet # Nil =>
            /\ DOMAIN Only(statefulSet).Errors = {tag \in DOMAIN cr : cr[tag] # Nil}
            /\ \A tag \in DOMAIN Only(statefulSet).Errors :
                Only(statefulSet).Errors[tag] = cr[tag]

\* Both functions have been called on inputs that mix nil and errors, the
\* errors of the list not in alphabetical order.
C24_Witness ==
    /\ stage = 1 /\ step = 1
    /\ calls = <<{"e2"}, Nil, {"e1"}>>
    /\ ret = {[Errors |-> <<{"e2"}, {"e1"}>>]}
    /\ DOMAIN cr = Tags /\ cr["t1"] = Nil /\ cr["t2"] = {"e1"}
    /\ statefulSet # Nil

====
